---- MODULE Spec2Model ----
(***************************************************************************)
(* MemVectorStore of zircon: the label/location allocator over a chain of  *)
(* VectorBatch pages (zircon/store/mem_vector_store.cc).                    *)
(*                                                                         *)
(* The store's fields are the variables.  Every member function is a       *)
(* function from a store record (and its arguments) to a store record and  *)
(* a result, written statement by statement after the C++; an action       *)
(* applies one member function to the current store.                       *)
(***************************************************************************)
EXTENDS Integers, Sequences, FiniteSets, TLC

\* ------------------------------------------------------------------ bounds
\* largest max_elements a configuration is drawn with
MaxElements == 2
\* largest batch_size a configuration is drawn with
MaxBatchSize == 2
\* labels the callers use are 1..MaxLabel
MaxLabel == 2
\* payloads the callers write are 1..MaxByte (one value stands for a slot's bytes)
MaxByte == 1
\* remove_vector is not called once _deleted_size has reached this value
MaxDeletedSize == 2
\* threads that call into one store
NumThreads == 2

\* the largest payload set_vector writes
MaxVector == 2

\* the vectors handed to a VectorDistance have Dim components in
\* -MaxComponent..MaxComponent
Dim == 2
MaxComponent == 1

\* --------------------------------------------------------------- constants
\* constants::kUnknownLabel, numeric_limits<size_t>::max(): (size_t)-1
kUnknownLabel == -1
\* constants::kUnknownLocation, numeric_limits<location_t>::max(): (uint32_t)-1;
\* also the value of a result that carries an error
kUnknownLocation == -1
\* the content of a slot that was allocated and never written
Uninit == 0
\* std::size_t is 64 bits wide; TLC's integers are 32 bits wide, so the
\* modulus of the unsigned subtraction in size() and available() is stood
\* for by a power of two far above every value of the model
SizeModulus == 1073741824

Labels == 1..MaxLabel
Bytes == 1..MaxByte
Configs ==
    [batch_size : 1..MaxBatchSize,
     max_elements : 1..MaxElements,
     enable_replace_vacant : BOOLEAN]

VARIABLES
    _is_available,   \* bool: initialize() has run
    _option,         \* VectorStoreOption
    _lid_to_label,   \* std::vector<label_type>: location -> label
    _label_map,      \* hash map label -> location
    _deleted_map,    \* bitmap of tombstoned locations
    _deleted_size,   \* counter of tombstones
    _current_idx,    \* the high-water mark
    _data,           \* std::vector<VectorBatch>
    fault,           \* "none", "fatal" (a TLOG_CHECK failed), "ub" (undefined behaviour)
    live,            \* labels added successfully and not removed since
    retired,         \* locations returned by remove_vector and not handed out since
    added,           \* labels add_vector was called with (kept by the distinct-label callers)
    _meta_lock,      \* std::shared_mutex over _current_idx, _lid_to_label, _deleted_map
    _label_map_lock, \* std::shared_mutex over _label_map
    pc,              \* where each thread stands in its call
    frame,           \* each thread's call: its arguments and its result
    history          \* ghost: the calls of a scripted run and their results

vars ==
    <<_is_available, _option, _lid_to_label, _label_map, _deleted_map,
      _deleted_size, _current_idx, _data, fault, live, retired, added,
      _meta_lock, _label_map_lock, pc, frame, history>>

\* what the threads add to the store
tvars == <<_meta_lock, _label_map_lock, pc, frame>>

\* ------------------------------------------------------------ the store
Store ==
    [is_available |-> _is_available,
     option |-> _option,
     lid_to_label |-> _lid_to_label,
     label_map |-> _label_map,
     deleted_map |-> _deleted_map,
     deleted_size |-> _deleted_size,
     current_idx |-> _current_idx,
     data |-> _data,
     fault |-> fault]

SetStore(s) ==
    /\ _is_available' = s.is_available
    /\ _option' = s.option
    /\ _lid_to_label' = s.lid_to_label
    /\ _label_map' = s.label_map
    /\ _deleted_map' = s.deleted_map
    /\ _deleted_size' = s.deleted_size
    /\ _current_idx' = s.current_idx
    /\ _data' = s.data
    /\ fault' = s.fault

StoreIs(s) ==
    /\ _is_available = s.is_available
    /\ _option = s.option
    /\ _lid_to_label = s.lid_to_label
    /\ _label_map = s.label_map
    /\ _deleted_map = s.deleted_map
    /\ _deleted_size = s.deleted_size
    /\ _current_idx = s.current_idx
    /\ _data = s.data
    /\ fault = s.fault

\* a freshly constructed MemVectorStore
Constructed ==
    [is_available |-> FALSE,
     option |-> [batch_size |-> 1, max_elements |-> 1, enable_replace_vacant |-> TRUE],
     lid_to_label |-> <<>>,
     label_map |-> <<>>,
     deleted_map |-> {},
     deleted_size |-> 0,
     current_idx |-> 0,
     data |-> <<>>,
     fault |-> "none"]

\* turbo::ResultStatus<T>
Ok(v) == [status |-> "OK", value |-> v]
Err(code) == [status |-> code, value |-> kUnknownLocation]
IsOk(r) == r.status = "OK"

\* a failed TLOG_CHECK ends the process
Fatal(s) == [s EXCEPT !.fault = "fatal"]
\* an access outside a std::vector
Undefined(s) == [s EXCEPT !.fault = "ub"]

Min(S) == CHOOSE x \in S : \A y \in S : x <= y

\* ---------------------------------------------------------- VectorBatch
\* VectorBatch::init(vector_byte_size, batch_size): a page of batch_size slots,
\* fill cursor 0
NewBatch(batch_size) ==
    [size |-> 0, slots |-> [i \in 0..(batch_size - 1) |-> Uninit]]

\* VectorBatch::available()
BatchAvailable(b, batch_size) == batch_size - b.size

\* VectorBatch::is_empty()
BatchIsEmpty(b) == b.size = 0

\* VectorBatch::resize(n): the fill cursor alone
BatchResize(b, n) == [b EXCEPT !.size = n]

\* VectorBatch::set_vector(si, vector)
BatchSetVector(b, si, bytes) == [b EXCEPT !.slots[si] = bytes]

\* _data[idx] is inside the vector (C++ index idx, sequence index idx + 1)
InData(s, idx) == idx >= 0 /\ idx < Len(s.data)

\* ------------------------------------------------------- growth, shrinking
\* MemVectorStore::expend
expend(s) == [s EXCEPT !.data = Append(@, NewBatch(s.option.batch_size))]

\* a reserve loop that stops after one batch
reserve_loop_once(s, n) ==
    IF Len(s.data) * s.option.batch_size < n THEN expend(s) ELSE s

\* MemVectorStore::reserve_impl: the while loop
RECURSIVE reserve_loop(_, _)
reserve_loop(s, n) ==
    IF Len(s.data) * s.option.batch_size < n
    THEN reserve_loop(expend(s), n)
    ELSE s

\* a reserve_impl that does not clamp the request to max_elements
reserve_impl_unclamped(s, n) == reserve_loop(s, n)

\* MemVectorStore::reserve_impl
reserve_impl(s, n) ==
    reserve_loop(s, IF n > s.option.max_elements THEN s.option.max_elements ELSE n)

\* MemVectorStore::resize_impl: the loop of the shrinking branch
RECURSIVE resize_pop_loop(_, _, _)
resize_pop_loop(s, idx, need_to_pop) ==
    IF need_to_pop = 0 THEN s
    ELSE IF ~InData(s, idx) THEN Undefined(s)
    ELSE LET bs == s.data[idx + 1].size IN
         IF bs >= need_to_pop
         THEN [s EXCEPT !.data[idx + 1] = BatchResize(@, bs - need_to_pop)]
         ELSE resize_pop_loop([s EXCEPT !.data[idx + 1] = BatchResize(@, 0)],
                              idx - 1, need_to_pop - bs)

\* MemVectorStore::resize_impl: the loop of the growing branch
RECURSIVE resize_expand_loop(_, _, _)
resize_expand_loop(s, idx, need_to_expand) ==
    IF need_to_expand = 0 THEN s
    ELSE IF ~InData(s, idx) THEN Undefined(s)
    ELSE LET ba == BatchAvailable(s.data[idx + 1], s.option.batch_size) IN
         IF ba >= need_to_expand
         THEN [s EXCEPT !.data[idx + 1] = BatchResize(@, @.size + need_to_expand)]
         ELSE resize_expand_loop(
                  [s EXCEPT !.data[idx + 1] = BatchResize(@, s.option.batch_size)],
                  idx + 1, need_to_expand - ba)

\* a resize_impl that moves the fill cursors and leaves the high-water mark
resize_impl_unmarked(s, n) ==
    IF n = s.current_idx THEN s
    ELSE LET idx == s.current_idx \div s.option.batch_size IN
         IF n < s.current_idx
         THEN resize_pop_loop(s, idx, s.current_idx - n)
         ELSE resize_expand_loop(reserve_impl(s, n), idx, n - s.current_idx)

\* MemVectorStore::resize_impl
resize_impl(s, n) ==
    IF n = s.current_idx THEN s
    ELSE LET idx == s.current_idx \div s.option.batch_size
             t == IF n < s.current_idx
                  THEN resize_pop_loop(s, idx, s.current_idx - n)
                  ELSE resize_expand_loop(reserve_impl(s, n), idx, n - s.current_idx)
         IN IF t.fault = "none" THEN [t EXCEPT !.current_idx = n] ELSE t

\* MemVectorStore::initialize
initialize(s, op) ==
    LET a == [s EXCEPT !.option = op,
                       !.lid_to_label = [i \in 0..(op.max_elements - 1) |-> kUnknownLabel]]
        b == reserve_impl(a, op.max_elements)
    IN [b EXCEPT !.is_available = TRUE]

\* ------------------------------------------------------------- payload
\* MemVectorStore::set_vector
set_vector(s, i, vector) ==
    IF ~s.is_available THEN Fatal(s)
    ELSE IF ~(i < s.current_idx) THEN Fatal(s)
    ELSE LET bi == i \div s.option.batch_size
             si == i % s.option.batch_size
         IN IF ~InData(s, bi) THEN Undefined(s)
            ELSE [s EXCEPT !.data[bi + 1] = BatchSetVector(@, si, vector)]

\* MemVectorStore::get_vector_internal (the store is read, not changed)
get_vector_internal(s, i) ==
    s.data[(i \div s.option.batch_size) + 1].slots[i % s.option.batch_size]

\* ------------------------------------------------------ label allocation
\* a get_vacant that never finds a tombstone to reuse
get_vacant_locked_never(s, label) == [s |-> s, r |-> Err("RESOURCE_EXHAUSTED")]

\* a get_vacant that looks the label up before it looks at the tombstones
get_vacant_locked_label_first(s, label) ==
    IF label \in DOMAIN s.label_map THEN [s |-> s, r |-> Err("ALREADY_EXISTS")]
    ELSE IF s.deleted_map = {} THEN [s |-> s, r |-> Err("RESOURCE_EXHAUSTED")]
    ELSE LET lid == Min(s.deleted_map) IN
         [s |-> [s EXCEPT !.deleted_map = @ \ {lid},
                          !.lid_to_label[lid] = label,
                          !.deleted_size = @ - 1,
                          !.label_map = (label :> lid) @@ @],
          r |-> Ok(lid)]

\* MemVectorStore::get_vacant, from the two locks on
get_vacant_locked(s, label) ==
    IF s.deleted_map = {} THEN [s |-> s, r |-> Err("RESOURCE_EXHAUSTED")]
    ELSE LET lid == Min(s.deleted_map) IN
         IF label \in DOMAIN s.label_map THEN [s |-> s, r |-> Err("ALREADY_EXISTS")]
         ELSE [s |-> [s EXCEPT !.deleted_map = @ \ {lid},
                               !.lid_to_label[lid] = label,
                               !.deleted_size = @ - 1,
                               !.label_map = (label :> lid) @@ @],
               r |-> Ok(lid)]

\* MemVectorStore::get_vacant
get_vacant(s, label) ==
    IF ~s.is_available THEN [s |-> Fatal(s), r |-> Err("FATAL")]
    ELSE IF ~s.option.enable_replace_vacant THEN [s |-> s, r |-> Err("UNAVAILABLE")]
    ELSE get_vacant_locked(s, label)

\* a prefer_add_vector whose capacity test lets one more location through
prefer_add_vector_above(s, label) ==
    IF ~s.is_available THEN [s |-> Fatal(s), r |-> Err("FATAL")]
    ELSE IF s.current_idx > s.option.max_elements
    THEN [s |-> s, r |-> Err("RESOURCE_EXHAUSTED")]
    ELSE IF label \in DOMAIN s.label_map THEN [s |-> s, r |-> Err("ALREADY_EXISTS")]
    ELSE LET lid == s.current_idx
             a == [s EXCEPT !.label_map = (label :> lid) @@ @,
                            !.lid_to_label[lid] = label]
             b == resize_impl(a, lid + 1)
         IN IF b.fault = "none"
            THEN [s |-> [b EXCEPT !.current_idx = lid + 1], r |-> Ok(lid)]
            ELSE [s |-> b, r |-> Err("FATAL")]

\* MemVectorStore::prefer_add_vector
prefer_add_vector(s, label) ==
    IF ~s.is_available THEN [s |-> Fatal(s), r |-> Err("FATAL")]
    ELSE IF s.current_idx >= s.option.max_elements
    THEN [s |-> s, r |-> Err("RESOURCE_EXHAUSTED")]
    ELSE IF label \in DOMAIN s.label_map THEN [s |-> s, r |-> Err("ALREADY_EXISTS")]
    ELSE LET lid == s.current_idx
             a == [s EXCEPT !.label_map = (label :> lid) @@ @,
                            !.lid_to_label[lid] = label]
             b == resize_impl(a, lid + 1)
         IN IF b.fault = "none"
            THEN [s |-> [b EXCEPT !.current_idx = lid + 1], r |-> Ok(lid)]
            ELSE [s |-> b, r |-> Err("FATAL")]

\* MemVectorStore::remove_vector
remove_vector(s, label) ==
    IF ~s.is_available THEN [s |-> Fatal(s), r |-> Err("FATAL")]
    ELSE IF label \notin DOMAIN s.label_map THEN [s |-> s, r |-> Err("NOT_FOUND")]
    ELSE LET lid == s.label_map[label] IN
         [s |-> [s EXCEPT !.lid_to_label[lid] = kUnknownLabel,
                          !.deleted_map = @ \cup {lid},
                          !.deleted_size = @ + 1],
          r |-> Ok(lid)]

\* an add_vector that allocates the location and leaves its bytes unwritten
add_vector_unwritten(s, label, query) ==
    IF ~s.is_available THEN [s |-> Fatal(s), r |-> Err("FATAL")]
    ELSE LET v == get_vacant(s, label) IN
         IF IsOk(v.r) THEN v ELSE prefer_add_vector(v.s, label)

\* an add_vector that returns the error of get_vacant
add_vector_first_error(s, label, query) ==
    IF ~s.is_available THEN [s |-> Fatal(s), r |-> Err("FATAL")]
    ELSE LET p == get_vacant(s, label)
         IN IF ~IsOk(p.r) THEN p
            ELSE LET w == set_vector(p.s, p.r.value, query) IN
                 IF w.fault = "none" THEN [s |-> w, r |-> p.r]
                 ELSE [s |-> w, r |-> Err("FATAL")]

\* MemVectorStore::add_vector
add_vector(s, label, query) ==
    IF ~s.is_available THEN [s |-> Fatal(s), r |-> Err("FATAL")]
    ELSE LET v == get_vacant(s, label)
             p == IF IsOk(v.r) THEN v ELSE prefer_add_vector(v.s, label)
         IN IF ~IsOk(p.r) THEN p
            ELSE LET w == set_vector(p.s, p.r.value, query) IN
                 IF w.fault = "none" THEN [s |-> w, r |-> p.r]
                 ELSE [s |-> w, r |-> Err("FATAL")]

\* MemVectorStore::enable_vacant
enable_vacant(s) ==
    IF ~s.is_available THEN Fatal(s)
    ELSE [s EXCEPT !.option.enable_replace_vacant = TRUE]

\* MemVectorStore::disable_vacant
disable_vacant(s) ==
    IF ~s.is_available THEN Fatal(s)
    ELSE [s EXCEPT !.option.enable_replace_vacant = FALSE]

\* ------------------------------------------------------------ accounting
\* MemVectorStore::size: the unsigned difference
size(s) == (s.current_idx - s.deleted_size) % SizeModulus

\* MemVectorStore::deleted_size
deleted_size(s) == s.deleted_size

\* MemVectorStore::current_index
current_index(s) == s.current_idx

\* MemVectorStore::capacity_impl
capacity_impl(s) ==
    LET n == Len(s.data) * s.option.batch_size IN
    IF n > s.option.max_elements THEN s.option.max_elements ELSE n

\* MemVectorStore::exists_label
exists_label(s, label) == label \in DOMAIN s.label_map

\* MemVectorStore::is_deleted, for loc < _current_idx
is_deleted(s, loc) == s.lid_to_label[loc] = kUnknownLabel

\* MemVectorStore::get_label, for loc < _current_idx
get_label(s, loc) == s.lid_to_label[loc]

\* ------------------------------------------------------- capacity calls
\* MemVectorStore::reserve
reserve(s, n) == IF ~s.is_available THEN Fatal(s) ELSE reserve_impl(s, n)

\* a shrink that drops every batch, empty or not
shrink_loop_all(s) == [s EXCEPT !.data = <<>>]

\* a shrink that drops one empty trailing batch at most
shrink_loop_one(s) ==
    IF Len(s.data) > 0 /\ BatchIsEmpty(s.data[Len(s.data)])
    THEN [s EXCEPT !.data = SubSeq(@, 1, Len(@) - 1)]
    ELSE s

\* MemVectorStore::shrink: the while loop
RECURSIVE shrink_loop(_)
shrink_loop(s) ==
    IF Len(s.data) > 0 /\ BatchIsEmpty(s.data[Len(s.data)])
    THEN shrink_loop([s EXCEPT !.data = SubSeq(@, 1, Len(@) - 1)])
    ELSE s

\* MemVectorStore::shrink
shrink(s) == IF ~s.is_available THEN Fatal(s) ELSE shrink_loop(s)

\* MemVectorStore::resize
resize(s, n) == IF ~s.is_available THEN Fatal(s) ELSE resize_impl(s, n)

\* MemVectorStore::pop_back: no availability check, only n < _current_idx
pop_back(s, n) ==
    IF ~(n < s.current_idx) THEN Fatal(s) ELSE resize_impl(s, s.current_idx - n)

\* a reset_max_elements that raises the limit and leaves the reverse map
reset_max_elements_limit_only(s, max_size) ==
    IF ~s.is_available THEN Fatal(s)
    ELSE IF ~(s.option.max_elements < max_size) THEN Fatal(s)
    ELSE [s EXCEPT !.option.max_elements = max_size]

\* MemVectorStore::reset_max_elements: the reverse map grows, filled with
\* the sentinel; no batch is reserved
reset_max_elements(s, max_size) ==
    IF ~s.is_available THEN Fatal(s)
    ELSE IF ~(s.option.max_elements < max_size) THEN Fatal(s)
    ELSE [s EXCEPT !.lid_to_label =
                       [i \in 0..(max_size - 1) |->
                           IF i \in DOMAIN @ THEN @[i] ELSE kUnknownLabel],
                   !.option.max_elements = max_size]

\* MemVectorStore::capacity
capacity(s) == capacity_impl(s)

\* MemVectorStore::available: the unsigned difference
available(s) == (capacity_impl(s) - s.current_idx) % SizeModulus

\* MemVectorStore::get_batch_size
get_batch_size(s) == s.option.batch_size

\* ------------------------------------------- the calls, with their checks
\* a call that returns v
Returns(s, v) == [s |-> s, r |-> Ok(v)]

\* a call that a failed TLOG_CHECK ends
Aborts(s) == [s |-> Fatal(s), r |-> Err("FATAL")]

\* a call that reads outside _data
ReadsOutside(s) == [s |-> Undefined(s), r |-> Err("UB")]

\* a get_vector without the check of i against _current_idx
get_vector_unchecked(s, i) ==
    IF ~s.is_available THEN Aborts(s)
    ELSE IF ~InData(s, i \div s.option.batch_size) THEN ReadsOutside(s)
    ELSE Returns(s, get_vector_internal(s, i))

\* MemVectorStore::get_vector
get_vector(s, i) ==
    IF ~s.is_available THEN Aborts(s)
    ELSE IF ~(i < s.current_idx) THEN Aborts(s)
    ELSE IF ~InData(s, i \div s.option.batch_size) THEN ReadsOutside(s)
    ELSE Returns(s, get_vector_internal(s, i))

\* MemVectorStore::copy_vector: des receives the bytes of slot i; there is no
\* check of i against _current_idx
copy_vector(s, i) ==
    IF ~s.is_available THEN Aborts(s)
    ELSE IF ~InData(s, i \div s.option.batch_size) THEN ReadsOutside(s)
    ELSE Returns(s, get_vector_internal(s, i))

\* a move_vector that copies the other way
move_vector_reversed(s, from, to) ==
    IF ~s.is_available THEN Fatal(s)
    ELSE IF ~(from < s.current_idx) THEN Fatal(s)
    ELSE IF ~(to < s.current_idx) THEN Fatal(s)
    ELSE IF ~InData(s, from \div s.option.batch_size) THEN Undefined(s)
    ELSE IF ~InData(s, to \div s.option.batch_size) THEN Undefined(s)
    ELSE [s EXCEPT !.data[(from \div s.option.batch_size) + 1] =
                       BatchSetVector(@, from % s.option.batch_size,
                                      get_vector_internal(s, to))]

\* MemVectorStore::move_vector
move_vector(s, from, to) ==
    IF ~s.is_available THEN Fatal(s)
    ELSE IF ~(from < s.current_idx) THEN Fatal(s)
    ELSE IF ~(to < s.current_idx) THEN Fatal(s)
    ELSE IF ~InData(s, from \div s.option.batch_size) THEN Undefined(s)
    ELSE IF ~InData(s, to \div s.option.batch_size) THEN Undefined(s)
    ELSE [s EXCEPT !.data[(to \div s.option.batch_size) + 1] =
                       BatchSetVector(@, to % s.option.batch_size,
                                      get_vector_internal(s, from))]

\* MemVectorStore::get_label, the whole call
get_label_call(s, loc) ==
    IF ~s.is_available THEN Aborts(s)
    ELSE IF ~(loc < s.current_idx) THEN Aborts(s)
    ELSE IF loc \notin DOMAIN s.lid_to_label THEN ReadsOutside(s)
    ELSE Returns(s, get_label(s, loc))

\* MemVectorStore::is_deleted, the whole call
is_deleted_call(s, loc) ==
    IF ~s.is_available THEN Aborts(s)
    ELSE IF ~(loc < s.current_idx) THEN Aborts(s)
    ELSE IF loc \notin DOMAIN s.lid_to_label THEN ReadsOutside(s)
    ELSE Returns(s, is_deleted(s, loc))

\* MemVectorStore::exists_label, the whole call
exists_label_call(s, label) ==
    IF ~s.is_available THEN Aborts(s) ELSE Returns(s, exists_label(s, label))

\* MemVectorStore::size, the whole call
size_call(s) == IF ~s.is_available THEN Aborts(s) ELSE Returns(s, size(s))

\* MemVectorStore::current_index, the whole call
current_index_call(s) ==
    IF ~s.is_available THEN Aborts(s) ELSE Returns(s, current_index(s))

\* MemVectorStore::available, the whole call
available_call(s) ==
    IF ~s.is_available THEN Aborts(s) ELSE Returns(s, available(s))

\* MemVectorStore::deleted_size, capacity and get_batch_size have no check
deleted_size_call(s) == Returns(s, deleted_size(s))
capacity_call(s) == Returns(s, capacity(s))
get_batch_size_call(s) == Returns(s, get_batch_size(s))

\* ================================================================ calls
Running == fault = "none"

Threads == 1..NumThreads

\* a std::shared_mutex: its exclusive owner (0: none) and its shared owners
Unlocked == [excl |-> 0, shared |-> {}]

\* no call in progress
NoCall == [op |-> "none", label |-> 0, query |-> 0, r |-> Ok(kUnknownLocation)]

ThreadsIdle ==
    /\ _meta_lock = Unlocked
    /\ _label_map_lock = Unlocked
    /\ pc = [t \in Threads |-> "idle"]
    /\ frame = [t \in Threads |-> NoCall]

Init ==
    /\ StoreIs(Constructed)
    /\ live = {}
    /\ retired = {}
    /\ added = {}
    /\ history = <<>>
    /\ ThreadsIdle

\* ---- the calls of one caller, each a whole member function
Ghosts(r, gain, loss) ==
    /\ live' = IF IsOk(r) THEN (live \cup gain.labels) \ loss.labels ELSE live
    /\ retired' = IF IsOk(r) THEN (retired \cup gain.locs) \ loss.locs ELSE retired

None == [labels |-> {}, locs |-> {}]

Initialize ==
    /\ Running
    /\ ~_is_available
    /\ \E op \in Configs :
          /\ SetStore(initialize(Store, op))
    /\ UNCHANGED <<live, retired, added, tvars, history>>

AddVector ==
    /\ Running
    /\ \E label \in Labels, query \in Bytes :
          LET c == add_vector(Store, label, query) IN
          /\ SetStore(c.s)
          /\ Ghosts(c.r, [labels |-> {label}, locs |-> {}],
                         [labels |-> {}, locs |-> {c.r.value}])
    /\ UNCHANGED <<added, tvars, history>>

RemoveVector ==
    /\ Running
    /\ _deleted_size < MaxDeletedSize
    /\ \E label \in Labels :
          LET c == remove_vector(Store, label) IN
          /\ SetStore(c.s)
          /\ Ghosts(c.r, [labels |-> {}, locs |-> {c.r.value}],
                         [labels |-> {label}, locs |-> {}])
    /\ UNCHANGED <<added, tvars, history>>

GetVacant ==
    /\ Running
    /\ \E label \in Labels :
          LET c == get_vacant(Store, label) IN
          /\ SetStore(c.s)
          /\ Ghosts(c.r, [labels |-> {label}, locs |-> {}],
                         [labels |-> {}, locs |-> {c.r.value}])
    /\ UNCHANGED <<added, tvars, history>>

EnableVacant ==
    /\ Running
    /\ LET s == enable_vacant(Store) IN
          SetStore(s)
    /\ UNCHANGED <<live, retired, added, tvars, history>>

DisableVacant ==
    /\ Running
    /\ LET s == disable_vacant(Store) IN
          SetStore(s)
    /\ UNCHANGED <<live, retired, added, tvars, history>>

Resize ==
    /\ Running
    /\ \E n \in 0..MaxElements :
          LET s == resize(Store, n) IN
          SetStore(s)
    /\ UNCHANGED <<live, retired, added, tvars, history>>

Reserve ==
    /\ Running
    /\ \E n \in 0..MaxElements :
          LET s == reserve(Store, n) IN
          SetStore(s)
    /\ UNCHANGED <<live, retired, added, tvars, history>>

Shrink ==
    /\ Running
    /\ LET s == shrink(Store) IN
          SetStore(s)
    /\ UNCHANGED <<live, retired, added, tvars, history>>

PopBack ==
    /\ Running
    /\ \E n \in 0..MaxElements : SetStore(pop_back(Store, n))
    /\ UNCHANGED <<live, retired, added, tvars, history>>

ResetMaxElements ==
    /\ Running
    /\ \E max_size \in 1..MaxElements : SetStore(reset_max_elements(Store, max_size))
    /\ UNCHANGED <<live, retired, added, tvars, history>>

Next ==
    \/ Initialize
    \/ AddVector
    \/ RemoveVector
    \/ GetVacant
    \/ EnableVacant
    \/ DisableVacant
    \/ Resize
    \/ Reserve
    \/ Shrink
    \/ PopBack
    \/ ResetMaxElements

\* one caller, every operation
Spec == Init /\ [][Next]_vars

\* one caller, the label operations only (no resize, reserve or shrink)
NextAlloc ==
    \/ Initialize
    \/ AddVector
    \/ RemoveVector
    \/ GetVacant
    \/ EnableVacant
    \/ DisableVacant

SpecAlloc == Init /\ [][NextAlloc]_vars

\* add_vector by a caller that never adds a label twice
AddVectorDistinct ==
    /\ Running
    /\ \E label \in Labels \ added, query \in Bytes :
          LET c == add_vector(Store, label, query) IN
          /\ SetStore(c.s)
          /\ Ghosts(c.r, [labels |-> {label}, locs |-> {}],
                         [labels |-> {}, locs |-> {c.r.value}])
          /\ added' = added \cup {label}
    /\ UNCHANGED <<tvars, history>>

NextAddRemove ==
    \/ Initialize
    \/ AddVectorDistinct
    \/ RemoveVector

\* one caller, add_vector with distinct labels and remove_vector
SpecAddRemove == Init /\ [][NextAddRemove]_vars

NextCapacity ==
    \/ Initialize
    \/ AddVector
    \/ RemoveVector
    \/ Resize
    \/ Reserve
    \/ Shrink
    \/ ResetMaxElements

\* one caller: add, remove and the calls that change the capacity
SpecCapacity == Init /\ [][NextCapacity]_vars

\* ---- the calls that read and write slots, next to add and remove
\* the locations a caller may name: below, at and above the high-water mark
Named == 0..MaxElements

\* the payloads set_vector writes
Vectors == 1..MaxVector

SetVector ==
    /\ Running
    /\ \E i \in Named, vector \in Vectors : SetStore(set_vector(Store, i, vector))
    /\ UNCHANGED <<live, retired, added, tvars, history>>

GetVector ==
    /\ Running
    /\ \E i \in Named : SetStore(get_vector(Store, i).s)
    /\ UNCHANGED <<live, retired, added, tvars, history>>

CopyVector ==
    /\ Running
    /\ \E i \in Named : SetStore(copy_vector(Store, i).s)
    /\ UNCHANGED <<live, retired, added, tvars, history>>

MoveVector ==
    /\ Running
    /\ \E from \in Named, to \in Named : SetStore(move_vector(Store, from, to))
    /\ UNCHANGED <<live, retired, added, tvars, history>>

GetLabel ==
    /\ Running
    /\ \E loc \in Named : SetStore(get_label_call(Store, loc).s)
    /\ UNCHANGED <<live, retired, added, tvars, history>>

IsDeleted ==
    /\ Running
    /\ \E loc \in Named : SetStore(is_deleted_call(Store, loc).s)
    /\ UNCHANGED <<live, retired, added, tvars, history>>

\* the calls that only report: each returns or ends the process
Report ==
    /\ Running
    /\ \E s \in { size_call(Store).s, current_index_call(Store).s,
                   available_call(Store).s, deleted_size_call(Store).s,
                   capacity_call(Store).s, get_batch_size_call(Store).s } \cup
                 { exists_label_call(Store, label).s : label \in Labels } :
          SetStore(s)
    /\ UNCHANGED <<live, retired, added, tvars, history>>

NextAccess ==
    \/ Initialize
    \/ AddVector
    \/ RemoveVector
    \/ SetVector
    \/ GetVector
    \/ CopyVector
    \/ MoveVector
    \/ GetLabel
    \/ IsDeleted
    \/ Report

\* one caller: add, remove and the calls on single locations
SpecAccess == Init /\ [][NextAccess]_vars

\* ---- a scripted run: a store of four locations in batches of two, vacancy
\* reuse on, and as many calls of add_vector and remove_vector as the scenario
ScenarioOption == [batch_size |-> 2, max_elements |-> 4, enable_replace_vacant |-> TRUE]

ScenarioLabels == {10, 20, 30, 40}

\* the calls of the scenario, in order
ScenarioCalls ==
    << [op |-> "add_vector", label |-> 10], [op |-> "add_vector", label |-> 20],
       [op |-> "add_vector", label |-> 30], [op |-> "remove_vector", label |-> 20],
       [op |-> "add_vector", label |-> 40] >>

InitScenario ==
    /\ StoreIs(initialize(Constructed, ScenarioOption))
    /\ live = {}
    /\ retired = {}
    /\ added = {}
    /\ history = <<>>
    /\ ThreadsIdle

\* what the caller sees of a call: its result, then size() and deleted_size()
Seen(op, label, c) ==
    [op |-> op, label |-> label, r |-> c.r,
     size |-> size(c.s), deleted_size |-> deleted_size(c.s)]

ScenarioAdd ==
    /\ Running
    /\ Len(history) < Len(ScenarioCalls)
    /\ \E label \in ScenarioLabels, query \in Bytes :
          LET c == add_vector(Store, label, query) IN
          /\ SetStore(c.s)
          /\ Ghosts(c.r, [labels |-> {label}, locs |-> {}],
                         [labels |-> {}, locs |-> {c.r.value}])
          /\ history' = Append(history, Seen("add_vector", label, c))
    /\ UNCHANGED <<added, tvars>>

ScenarioRemove ==
    /\ Running
    /\ Len(history) < Len(ScenarioCalls)
    /\ \E label \in ScenarioLabels :
          LET c == remove_vector(Store, label) IN
          /\ SetStore(c.s)
          /\ Ghosts(c.r, [labels |-> {}, locs |-> {c.r.value}],
                         [labels |-> {label}, locs |-> {}])
          /\ history' = Append(history, Seen("remove_vector", label, c))
    /\ UNCHANGED <<added, tvars>>

NextScenario ==
    \/ ScenarioAdd
    \/ ScenarioRemove

SpecScenario == InitScenario /\ [][NextScenario]_vars

\* a store whose limit lies above every location the calls below reach
RoomyConfigs ==
    [batch_size : {MaxBatchSize}, max_elements : {MaxElements + 1},
     enable_replace_vacant : BOOLEAN]

InitRoomy ==
    /\ \E op \in RoomyConfigs : StoreIs(initialize(Constructed, op))
    /\ live = {}
    /\ retired = {}
    /\ added = {}
    /\ history = <<>>
    /\ ThreadsIdle

\* add_vector with one payload: the calls on this store differ in their labels
AddVectorRoomy ==
    /\ Running
    /\ \E label \in Labels :
          LET c == add_vector(Store, label, MaxByte) IN
          /\ SetStore(c.s)
          /\ Ghosts(c.r, [labels |-> {label}, locs |-> {}],
                         [labels |-> {}, locs |-> {c.r.value}])
    /\ UNCHANGED <<added, tvars, history>>

\* the limits reset_max_elements is called with on that store
RoomyLimits == (MaxElements + 1)..(MaxElements + 2)

ResetMaxElementsRoomy ==
    /\ Running
    /\ \E max_size \in RoomyLimits : SetStore(reset_max_elements(Store, max_size))
    /\ UNCHANGED <<live, retired, added, tvars, history>>

NextRoomy ==
    \/ AddVectorRoomy
    \/ RemoveVector
    \/ GetVacant
    \/ Resize
    \/ Reserve
    \/ Shrink
    \/ PopBack
    \/ ResetMaxElementsRoomy

\* one caller on a store with room: the calls never meet the limit
SpecRoomy == InitRoomy /\ [][NextRoomy]_vars


\* ============================================================== threads
storevars ==
    <<_is_available, _option, _lid_to_label, _label_map, _deleted_map,
      _deleted_size, _current_idx, _data, fault>>
ghosts == <<live, retired, added, history>>

\* std::unique_lock<std::shared_mutex>: the constructor blocks until it owns the mutex
CanLock(mutex) == mutex.excl = 0 /\ mutex.shared = {}
Locked(t) == [excl |-> t, shared |-> {}]

Goto(t, label) == pc' = [pc EXCEPT ![t] = label]
Return(t, r) == frame' = [frame EXCEPT ![t].r = r]

\* std::unique_lock lock(_meta_lock) at position `at`
AcquireMeta(t, at, then) ==
    /\ Running
    /\ pc[t] = at
    /\ CanLock(_meta_lock)
    /\ _meta_lock' = Locked(t)
    /\ Goto(t, then)
    /\ UNCHANGED <<storevars, ghosts, _label_map_lock, frame>>

\* std::unique_lock lock(_label_map_lock) at position `at`
AcquireLabelMap(t, at, then) ==
    /\ Running
    /\ pc[t] = at
    /\ CanLock(_label_map_lock)
    /\ _label_map_lock' = Locked(t)
    /\ Goto(t, then)
    /\ UNCHANGED <<storevars, ghosts, _meta_lock, frame>>

\* the two unique_locks go out of scope at the return
\* a return that keeps both locks held
ReleaseNone == UNCHANGED <<_meta_lock, _label_map_lock>>

\* the unique_locks are destroyed at the return of the locked section
ReleaseBoth == _meta_lock' = Unlocked /\ _label_map_lock' = Unlocked

\* add_vector is entered; get_vacant reads enable_replace_vacant before any lock
CallAddVector(t) ==
    /\ Running
    /\ pc[t] = "idle"
    /\ \E label \in Labels, query \in Bytes :
          frame' = [frame EXCEPT ![t] =
                       [op |-> "add_vector", label |-> label, query |-> query,
                        r |-> Err("UNAVAILABLE")]]
    /\ Goto(t, IF _option.enable_replace_vacant THEN "gv_lock_meta" ELSE "pa_lock_label")
    /\ UNCHANGED <<storevars, ghosts, _meta_lock, _label_map_lock>>

\* get_vacant: lock(_meta_lock)
GvLockMeta(t) == AcquireMeta(t, "gv_lock_meta", "gv_lock_label")

\* get_vacant: label_lock(_label_map_lock)
GvLockLabelMap(t) == AcquireLabelMap(t, "gv_lock_label", "gv_body")

\* get_vacant under both locks, and add_vector's test of its result
GvBody(t) ==
    /\ Running
    /\ pc[t] = "gv_body"
    /\ LET c == get_vacant_locked(Store, frame[t].label) IN
          /\ SetStore(c.s)
          /\ Return(t, c.r)
          /\ Goto(t, IF IsOk(c.r) THEN "set_vector" ELSE "pa_lock_label")
          /\ Ghosts(c.r, [labels |-> {frame[t].label}, locs |-> {}],
                         [labels |-> {}, locs |-> {c.r.value}])
    /\ ReleaseBoth
    /\ UNCHANGED <<added, history>>

\* prefer_add_vector: lock(_label_map_lock)
PaLockLabelMap(t) == AcquireLabelMap(t, "pa_lock_label", "pa_lock_meta")

\* prefer_add_vector: lm(_meta_lock)
PaLockMeta(t) == AcquireMeta(t, "pa_lock_meta", "pa_body")

\* prefer_add_vector under both locks, and add_vector's test of its result
PaBody(t) ==
    /\ Running
    /\ pc[t] = "pa_body"
    /\ LET c == prefer_add_vector(Store, frame[t].label) IN
          /\ SetStore(c.s)
          /\ Return(t, c.r)
          /\ Goto(t, IF IsOk(c.r) THEN "set_vector" ELSE "idle")
          /\ Ghosts(c.r, [labels |-> {frame[t].label}, locs |-> {}],
                         [labels |-> {}, locs |-> {c.r.value}])
    /\ ReleaseBoth
    /\ UNCHANGED <<added, history>>

\* add_vector: set_vector(lid, query), under no lock, and the return
AddSetVector(t) ==
    /\ Running
    /\ pc[t] = "set_vector"
    /\ LET s == set_vector(Store, frame[t].r.value, frame[t].query) IN
          /\ SetStore(s)
          /\ Return(t, IF s.fault = "none" THEN frame[t].r ELSE Err("FATAL"))
    /\ Goto(t, "idle")
    /\ UNCHANGED <<ghosts, _meta_lock, _label_map_lock>>

\* remove_vector is entered
CallRemoveVector(t) ==
    /\ Running
    /\ pc[t] = "idle"
    /\ _deleted_size < MaxDeletedSize
    /\ \E label \in Labels :
          frame' = [frame EXCEPT ![t] =
                       [op |-> "remove_vector", label |-> label, query |-> 0,
                        r |-> Err("NOT_FOUND")]]
    /\ Goto(t, "rm_lock_meta")
    /\ UNCHANGED <<storevars, ghosts, _meta_lock, _label_map_lock>>

\* remove_vector: lock(_meta_lock)
RmLockMeta(t) == AcquireMeta(t, "rm_lock_meta", "rm_lock_label")

\* remove_vector: label_lock(_label_map_lock)
RmLockLabelMap(t) == AcquireLabelMap(t, "rm_lock_label", "rm_body")

\* remove_vector under both locks, and the return
RmBody(t) ==
    /\ Running
    /\ pc[t] = "rm_body"
    /\ LET c == remove_vector(Store, frame[t].label) IN
          /\ SetStore(c.s)
          /\ Return(t, c.r)
          /\ Ghosts(c.r, [labels |-> {}, locs |-> {c.r.value}],
                         [labels |-> {frame[t].label}, locs |-> {}])
    /\ Goto(t, "idle")
    /\ ReleaseBoth
    /\ UNCHANGED <<added, history>>

\* the threads start on a store that initialize() has returned from
InitMT ==
    /\ \E op \in Configs : StoreIs(initialize(Constructed, op))
    /\ live = {}
    /\ retired = {}
    /\ added = {}
    /\ history = <<>>
    /\ ThreadsIdle

NextMT ==
    \E t \in Threads :
        \/ CallAddVector(t)
        \/ GvLockMeta(t)
        \/ GvLockLabelMap(t)
        \/ GvBody(t)
        \/ PaLockLabelMap(t)
        \/ PaLockMeta(t)
        \/ PaBody(t)
        \/ AddSetVector(t)
        \/ CallRemoveVector(t)
        \/ RmLockMeta(t)
        \/ RmLockLabelMap(t)
        \/ RmBody(t)

\* threads calling add_vector and remove_vector on one store
SpecMT == InitMT /\ [][NextMT]_vars

\* the store is initialized and the process is alive
\* ---- threads that also resize and query
\* resize: no lock is taken (the lock of _data is commented out)
ResizeByThread(t) ==
    /\ Running
    /\ pc[t] = "idle"
    /\ \E n \in 0..MaxElements : SetStore(resize(Store, n))
    /\ UNCHANGED <<ghosts, tvars>>

\* pop_back: no lock is taken
PopBackByThread(t) ==
    /\ Running
    /\ pc[t] = "idle"
    /\ \E n \in 0..MaxElements : SetStore(pop_back(Store, n))
    /\ UNCHANGED <<ghosts, tvars>>

\* get_label: the shared lock of _meta_lock is commented out; the thread
\* keeps what it read
GetLabelByThread(t) ==
    /\ Running
    /\ pc[t] = "idle"
    /\ \E loc \in Named :
          LET c == get_label_call(Store, loc) IN
          /\ SetStore(c.s)
          /\ frame' = [frame EXCEPT ![t] =
                          [op |-> "get_label", label |-> c.r.value, query |-> 0,
                           r |-> Ok(loc)]]
    /\ UNCHANGED <<ghosts, _meta_lock, _label_map_lock, pc>>

NextMTResize ==
    \/ NextMT
    \/ \E t \in Threads :
          \/ ResizeByThread(t)
          \/ PopBackByThread(t)
          \/ GetLabelByThread(t)

\* threads calling add_vector, remove_vector, resize, pop_back and get_label
SpecMTResize == InitMT /\ [][NextMTResize]_vars

\* ============================================================ VectorDistance
\* the specialisations of VectorDistance<MetricType>
Metrics ==
    {"METRIC_L1", "METRIC_L2", "METRIC_NORMALIZED_L2", "METRIC_IP", "METRIC_COSINE",
     "METRIC_NORMALIZED_COSINE", "METRIC_MIN_MAX_JACCARD", "METRIC_BITS_JACCARD",
     "METRIC_HAMMING", "METRIC_CANBERRA", "METRIC_LP", "METRIC_BRAY_CURTIS",
     "METRIC_JENSEN_SHANNON", "METRIC_LINF", "METRIC_CROSS_ENTROPY", "METRIC_KLD",
     "METRIC_ANGLE", "METRIC_NORMALIZED_ANGLE"}

\* the specialisations whose norm and normalize call distance::norm_l1 and
\* distance::normalize_l1
CallsL1 == {"METRIC_L1"}

\* the specialisations whose norm and normalize call distance::norm_l2 and
\* distance::normalize_l2
CallsL2 ==
    {"METRIC_L2", "METRIC_NORMALIZED_L2", "METRIC_COSINE", "METRIC_NORMALIZED_COSINE",
     "METRIC_ANGLE", "METRIC_NORMALIZED_ANGLE"}

\* VectorDistance<M>::need_normalize
need_normalize(metric) ==
    metric \in {"METRIC_NORMALIZED_L2", "METRIC_NORMALIZED_COSINE",
                "METRIC_NORMALIZED_ANGLE"}

\* VectorDistance<M>::has_normalize
has_normalize(metric) ==
    metric \notin {"METRIC_IP", "METRIC_COSINE", "METRIC_MIN_MAX_JACCARD"}

\* the vectors of the callers
Components == (0 - MaxComponent)..MaxComponent
Spans == [1..Dim -> Components]

Abs(x) == IF x < 0 THEN 0 - x ELSE x

RECURSIVE SumTo(_, _)
SumTo(f, n) == IF n = 0 THEN 0 ELSE f[n] + SumTo(f, n - 1)

\* a float that is the root-th root of an integer (root 1: the integer itself)
Root(root, of) == [root |-> root, of |-> of]
NoNorm == Root(0, 0)

\* distance::norm_l1: the sum of the absolute values
norm_l1(a) == Root(1, SumTo([i \in DOMAIN a |-> Abs(a[i])], Len(a)))

\* distance::norm_l2: the square root of the sum of the squares
norm_l2(a) == Root(2, SumTo([i \in DOMAIN a |-> a[i] * a[i]], Len(a)))

\* distance::normalize_l1 and normalize_l2 with the norm given: out[i] = a[i] / norm
Scaled(a, n) == [i \in DOMAIN a |-> [num |-> a[i], den |-> n]]

\* a span of floats as the quotients the normalisations produce
Plain(a) == Scaled(a, Root(1, 1))

\* what a call on a VectorDistance leaves: its status, the value of
\* has_normalize or need_normalize, the norm, and the spans a and out
Answer(status, flag, n, a, out) ==
    [status |-> status, flag |-> flag, norm |-> n, a |-> a, out |-> out]

\* TURBO_ASSERT(false, "not implemented")
NotImplemented(a, out) == Answer("NOT_IMPLEMENTED", FALSE, NoNorm, Plain(a), Plain(out))

\* TLOG_CHECK(is_aligned, "the memory must be aligned")
NotAligned(a, out) == Answer("FATAL", FALSE, NoNorm, Plain(a), Plain(out))

\* VectorDistance<M>::norm
norm(metric, a, is_aligned) ==
    IF metric \notin CallsL1 \cup CallsL2 THEN NotImplemented(a, a)
    ELSE IF ~is_aligned THEN NotAligned(a, a)
    ELSE Answer("OK", FALSE, IF metric \in CallsL1 THEN norm_l1(a) ELSE norm_l2(a),
                Plain(a), Plain(a))

\* VectorDistance<M>::normalize(a), in place
normalize(metric, a, is_aligned) ==
    IF metric \notin CallsL1 \cup CallsL2 THEN NotImplemented(a, a)
    ELSE IF ~is_aligned THEN NotAligned(a, a)
    ELSE LET n == IF metric \in CallsL1 THEN norm_l1(a) ELSE norm_l2(a) IN
         Answer("OK", FALSE, n, Scaled(a, n), Scaled(a, n))

\* VectorDistance<M>::normalize(a, out)
normalize_out(metric, a, out, is_aligned) ==
    IF metric \notin CallsL1 \cup CallsL2 THEN NotImplemented(a, out)
    ELSE IF ~is_aligned THEN NotAligned(a, out)
    ELSE LET n == IF metric \in CallsL1 THEN norm_l1(a) ELSE norm_l2(a) IN
         Answer("OK", FALSE, n, Plain(a), Scaled(a, n))

\* the caller has a constructed VectorDistance and no call behind it
InitDistance ==
    /\ StoreIs(Constructed)
    /\ live = {}
    /\ retired = {}
    /\ added = {}
    /\ history = <<>>
    /\ ThreadsIdle

\* a call returns, or the failed check ends the process
Called(op, metric, r) ==
    /\ history' = <<[op |-> op, metric |-> metric, r |-> r]>>
    /\ SetStore(IF r.status = "OK" THEN Store ELSE Fatal(Store))
    /\ UNCHANGED <<live, retired, added, tvars>>

HasNormalize ==
    /\ Running
    /\ \E metric \in Metrics, a \in Spans :
          Called("has_normalize", metric,
                 Answer("OK", has_normalize(metric), NoNorm, Plain(a), Plain(a)))

NeedNormalize ==
    /\ Running
    /\ \E metric \in Metrics, a \in Spans :
          Called("need_normalize", metric,
                 Answer("OK", need_normalize(metric), NoNorm, Plain(a), Plain(a)))

Norm ==
    /\ Running
    /\ \E metric \in Metrics, a \in Spans, is_aligned \in BOOLEAN :
          Called("norm", metric, norm(metric, a, is_aligned))

Normalize ==
    /\ Running
    /\ \E metric \in Metrics, a \in Spans, is_aligned \in BOOLEAN :
          Called("normalize", metric, normalize(metric, a, is_aligned))

NormalizeOut ==
    /\ Running
    /\ \E metric \in Metrics, a \in Spans, out \in Spans, is_aligned \in BOOLEAN :
          Called("normalize_out", metric, normalize_out(metric, a, out, is_aligned))

NextDistance ==
    \/ HasNormalize
    \/ NeedNormalize
    \/ Norm
    \/ Normalize
    \/ NormalizeOut

\* one caller of the members of a VectorDistance
SpecDistance == InitDistance /\ [][NextDistance]_vars


Ready == Running /\ _is_available

\* the locations of the reverse map
Locations == DOMAIN _lid_to_label

\* ================================================================ claims

\* C1: after a successful remove_vector(label) returning L, exists_label(label)
\* is false, is_deleted(L) is true and get_label(L) is the unknown-label sentinel.
C1_RemoveForgetsLabel ==
    Ready =>
        \A label \in Labels :
            LET c == remove_vector(Store, label) IN
            IsOk(c.r) =>
                /\ ~exists_label(c.s, label)
                /\ is_deleted(c.s, c.r.value)
                /\ get_label(c.s, c.r.value) = kUnknownLabel

\* C2: add_vector of a label that is live returns ALREADY_EXISTS and leaves the
\* high-water mark, the label map and the reverse map unchanged, in every
\* reachable state (a full store included).
C2_AddLiveAlreadyExists ==
    Ready =>
        \A label \in live, query \in Bytes :
            LET c == add_vector(Store, label, query) IN
            /\ c.r.status = "ALREADY_EXISTS"
            /\ c.s.current_idx = _current_idx
            /\ c.s.label_map = _label_map
            /\ c.s.lid_to_label = _lid_to_label

\* the positions at which a thread asks for the metadata lock
AsksMeta == {"gv_lock_meta", "pa_lock_meta", "rm_lock_meta"}

\* C3: the metadata lock is acquired before the label-map lock: no thread asks
\* for the metadata lock while it holds the label-map lock.
C3_MetaBeforeLabelMap ==
    \A t \in Threads : pc[t] \in AsksMeta => _label_map_lock.excl # t

\* C4: with distinct added labels, after every add_vector and remove_vector
\* size() is the number of live labels and deleted_size() the number of retired
\* locations not yet reused.
C4_SizeCountsLive ==
    Ready =>
        /\ size(Store) = Cardinality(live)
        /\ deleted_size(Store) = Cardinality(retired)

\* C5: the label map is injective, covers exactly the live labels and agrees
\* with the reverse map: label_map[label] = loc iff lid_to_label[loc] = label.
C5_MapsAgree ==
    Ready =>
        /\ \A label \in Labels, loc \in Locations :
              (label \in DOMAIN _label_map /\ _label_map[label] = loc)
                  <=> (_lid_to_label[loc] = label)
        /\ DOMAIN _label_map = live
        /\ \A a, b \in DOMAIN _label_map : _label_map[a] = _label_map[b] => a = b

Active(loc) ==
    /\ \E label \in DOMAIN _label_map : _label_map[label] = loc
    /\ _lid_to_label[loc] # kUnknownLabel
Tombstoned(loc) == _lid_to_label[loc] = kUnknownLabel /\ loc \in _deleted_map
Unallocated(loc) == loc >= _current_idx

\* C6: every location is in exactly one of the states Active, Tombstoned and
\* Unallocated; no location below the high-water mark holds the sentinel without
\* being tombstoned, and no tombstoned or label-mapped location is at or above
\* the high-water mark.
C6_ThreeStates ==
    Ready =>
        /\ \A loc \in Locations :
              /\ Active(loc) \/ Tombstoned(loc) \/ Unallocated(loc)
              /\ ~(Active(loc) /\ Tombstoned(loc))
              /\ ~(Active(loc) /\ Unallocated(loc))
              /\ ~(Tombstoned(loc) /\ Unallocated(loc))
        /\ \A loc \in _deleted_map : loc < _current_idx
        /\ \A label \in DOMAIN _label_map : _label_map[label] < _current_idx

\* C7: add_vector fails with ALREADY_EXISTS only for a live label: a label that
\* was removed and not added again is not refused with ALREADY_EXISTS.
C7_AlreadyExistsOnlyIfLive ==
    Ready =>
        \A label \in Labels \ live, query \in Bytes :
            add_vector(Store, label, query).r.status # "ALREADY_EXISTS"

\* C8: remove_vector of a label that is not live returns NOT_FOUND and leaves
\* the reverse map, the tombstone set, deleted_size() and the high-water mark
\* unchanged.
C8_RemoveNotLiveNotFound ==
    Ready =>
        \A label \in Labels \ live :
            LET c == remove_vector(Store, label) IN
            /\ c.r.status = "NOT_FOUND"
            /\ c.s.lid_to_label = _lid_to_label
            /\ c.s.deleted_map = _deleted_map
            /\ c.s.deleted_size = _deleted_size
            /\ c.s.current_idx = _current_idx

\* C9: with vacancy reuse enabled, a tombstone present and a label that is not
\* live, add_vector returns the minimum tombstoned location, removes exactly it
\* from the set, decrements deleted_size() and leaves the high-water mark.
C9_ReuseMinimum ==
    (Ready /\ _option.enable_replace_vacant /\ _deleted_map # {}) =>
        \A label \in Labels \ live, query \in Bytes :
            LET c == add_vector(Store, label, query) IN
            /\ IsOk(c.r)
            /\ c.r.value = Min(_deleted_map)
            /\ c.s.deleted_map = _deleted_map \ {Min(_deleted_map)}
            /\ c.s.deleted_size = _deleted_size - 1
            /\ c.s.current_idx = _current_idx

\* C10: while vacancy reuse is disabled a successful add_vector returns the
\* previous high-water mark, never a tombstoned location, and leaves the
\* tombstone set and deleted_size() unchanged; after enable_vacant the
\* tombstones are offered again.
C10_DisabledNeverReuses ==
    (Ready /\ ~_option.enable_replace_vacant) =>
        /\ \A label \in Labels, query \in Bytes :
              LET c == add_vector(Store, label, query) IN
              IsOk(c.r) =>
                  /\ c.r.value = _current_idx
                  /\ c.r.value \notin _deleted_map
                  /\ c.s.deleted_map = _deleted_map
                  /\ c.s.deleted_size = _deleted_size
        /\ \A label \in Labels :
              get_vacant(enable_vacant(Store), label).r.status # "UNAVAILABLE"

\* C11: in the store of four locations in batches of two, the calls
\* add_vector(10), add_vector(20), add_vector(30), remove_vector(20),
\* add_vector(40) return 0, 1, 2, 1 and 1; after the remove size() is 2 and
\* deleted_size() is 1, after the last add size() is 3 and deleted_size() is 0.
ScenarioReturns == <<0, 1, 2, 1, 1>>

\* the first k calls made are the first k calls of the scenario
Follows(k) ==
    /\ k <= Len(history)
    /\ k <= Len(ScenarioCalls)
    /\ \A i \in 1..k : /\ history[i].op = ScenarioCalls[i].op
                       /\ history[i].label = ScenarioCalls[i].label

C11_Scenario ==
    \A k \in 1..Len(ScenarioCalls) :
        Follows(k) =>
            /\ history[k].r = Ok(ScenarioReturns[k])
            /\ k = 4 => history[k].size = 2 /\ history[k].deleted_size = 1
            /\ k = 5 => history[k].size = 3 /\ history[k].deleted_size = 0

C11_ScenarioRun == Follows(Len(ScenarioCalls))

\* C12: when the high-water mark equals max_elements and no location is
\* tombstoned, add_vector of a label that is not live fails with
\* RESOURCE_EXHAUSTED and leaves current_index(), size() and both maps as
\* they were.
Full == Ready /\ _current_idx = _option.max_elements /\ _deleted_map = {}

C12_FullStoreExhausted ==
    Full =>
        \A label \in Labels \ live, query \in Bytes :
            LET c == add_vector(Store, label, query) IN
            /\ c.r = Err("RESOURCE_EXHAUSTED")
            /\ current_index(c.s) = current_index(Store)
            /\ size(c.s) = size(Store)
            /\ c.s.label_map = _label_map
            /\ c.s.lid_to_label = _lid_to_label

\* a full store next to a label that is not live, after an add
C12_FullAfterAdd == Full /\ live # {} /\ Labels \ live # {}

\* the positions at which a thread asks for the label-map lock
AsksLabelMap == {"gv_lock_label", "pa_lock_label", "rm_lock_label"}

\* C13: with threads calling add_vector and remove_vector at once, no state is
\* reached in which one thread holds the label-map lock and waits for the
\* metadata lock while another holds the metadata lock and waits for the
\* label-map lock (so every call can return).
C13_NoLockCycle ==
    \A t, u \in Threads :
        ~ /\ t # u
          /\ _label_map_lock.excl = t /\ pc[t] \in AsksMeta
          /\ _meta_lock.excl = u /\ pc[u] \in AsksLabelMap

\* get_vector of a location whose batch exists
Stored(s, loc) == InData(s, loc \div s.option.batch_size)

\* C14: after a successful add_vector(label, bytes) returning loc: loc is
\* below current_index(), exists_label(label) holds, get_label(loc) is label,
\* is_deleted(loc) is false, get_vector(loc) is bytes, and every other
\* location below the high-water mark keeps its label and its bytes.
C14_AddPostcondition ==
    Ready =>
        \A label \in Labels, query \in Bytes :
            LET c == add_vector(Store, label, query)
                loc == c.r.value
            IN IsOk(c.r) =>
                /\ loc < current_index(c.s)
                /\ exists_label(c.s, label)
                /\ get_label(c.s, loc) = label
                /\ ~is_deleted(c.s, loc)
                /\ Stored(c.s, loc) /\ get_vector_internal(c.s, loc) = query
                /\ \A other \in 0..(current_index(c.s) - 1) \ {loc} :
                      /\ other \in Locations => get_label(c.s, other) = get_label(Store, other)
                      /\ Stored(Store, other) =>
                            /\ Stored(c.s, other)
                            /\ get_vector_internal(c.s, other) = get_vector_internal(Store, other)

\* two live labels at two locations below the high-water mark, each with the
\* bytes an add_vector wrote
C14_AddedAmongOthers ==
    /\ Ready
    /\ \E first, second \in live :
          /\ _label_map[first] # _label_map[second]
          /\ \A label \in {first, second} :
                /\ _label_map[label] < _current_idx
                /\ get_label(Store, _label_map[label]) = label
                /\ get_vector_internal(Store, _label_map[label]) \in Bytes

\* C15: from every state, with m the value of current_index(), resize(n)
\* followed by resize(m) ends without a fatal error or an access outside
\* _data, current_index() is m again, and every location below m keeps its
\* bytes (n ranges over the sizes the store admits).
C15_ResizeRoundTrip ==
    Ready =>
        \A n \in 0.._option.max_elements :
            LET m == current_index(Store)
                a == resize(Store, n)
                b == resize(a, m)
            IN /\ a.fault = "none"
               /\ b.fault = "none"
               /\ current_index(b) = m
               /\ \A loc \in 0..(m - 1) :
                     Stored(Store, loc) =>
                         /\ Stored(b, loc)
                         /\ get_vector_internal(b, loc) = get_vector_internal(Store, loc)

\* C16: resize(n) sets current_index() to n, and leaves the tombstone set,
\* deleted_size(), the label map and the reverse map as they were (n ranges
\* over the sizes the store admits).
C16_ResizeSetsIndex ==
    Ready =>
        \A n \in 0.._option.max_elements :
            LET a == resize(Store, n) IN
            /\ a.fault = "none"
            /\ current_index(a) = n
            /\ a.deleted_map = _deleted_map
            /\ deleted_size(a) = deleted_size(Store)
            /\ a.label_map = _label_map
            /\ a.lid_to_label = _lid_to_label

\* the state of a location: at or above the high-water mark it is Unallocated
StateOf(loc) ==
    IF Unallocated(loc) THEN "Unallocated"
    ELSE IF Tombstoned(loc) THEN "Tombstoned"
    ELSE IF Active(loc) THEN "Active"
    ELSE "none"

AllowedTransitions ==
    { <<"Unallocated", "Active">>, <<"Active", "Tombstoned">>, <<"Tombstoned", "Active">> }

\* C17: a step of any store operation moves a location between the states
\* Unallocated, Active and Tombstoned only from Unallocated to Active, from
\* Active to Tombstoned or from Tombstoned to Active; in particular never from
\* Tombstoned to Unallocated or from Unallocated to Tombstoned.
C17_LocationTransitions ==
    [][ (Ready /\ Ready') =>
           \A loc \in Locations :
               \/ StateOf(loc)' = StateOf(loc)
               \/ "none" \in {StateOf(loc), StateOf(loc)'}
               \/ <<StateOf(loc), StateOf(loc)'>> \in AllowedTransitions ]_vars

\* the allocated physical capacity: the number of batches times batch_size
AllocatedSlots == Len(_data) * _option.batch_size

\* C18: the allocated physical capacity stays below max_elements +
\* batch_size, that is within max_elements rounded up to whole batches, and
\* within max_elements itself when max_elements is a multiple of batch_size.
C18_AllocatedWithinRoundedMax ==
    Ready =>
        /\ AllocatedSlots < _option.max_elements + _option.batch_size
        /\ _option.max_elements % _option.batch_size = 0 =>
               AllocatedSlots <= _option.max_elements

\* batches reserved beyond max_elements
C18_AllocatedAboveMax == Ready /\ AllocatedSlots > _option.max_elements

\* C18 as stated: the allocated physical capacity does not exceed
\* max_elements, whatever the configuration.
C18_AllocatedWithinMax == Ready => AllocatedSlots <= _option.max_elements

\* the step dropped trailing batches only, each with its fill cursor at zero
DroppedEmptyTrailing ==
    /\ Len(_data') < Len(_data)
    /\ _data' = SubSeq(_data, 1, Len(_data'))
    /\ \A i \in (Len(_data') + 1)..Len(_data) : BatchIsEmpty(_data[i])

\* C19: capacity() never exceeds max_elements; a step that completes lowers
\* capacity() only if it is a shrink(), and then only by the slots of trailing
\* batches whose fill cursor is zero.
C19_CapacitySteps ==
    [][ (Running /\ Ready') =>
           /\ capacity(Store)' <= _option.max_elements'
           /\ capacity(Store)' < capacity(Store) => Shrink /\ DroppedEmptyTrailing ]_vars

\* a store whose every batch a shrink() has dropped
C19_Shrunk == Ready /\ Len(_data) = 0

\* C20: in every state reached through the public operations,
\* current_index() <= capacity() <= max_elements: available() is the
\* difference capacity() - current_index() without wrapping around, and no
\* location at or beyond max_elements is allocated.
C20_IndexWithinCapacity ==
    Ready =>
        /\ current_index(Store) <= capacity(Store)
        /\ capacity(Store) <= _option.max_elements
        /\ available(Store) = capacity(Store) - current_index(Store)

\* C21: get_vector, set_vector, move_vector (either argument), get_label and
\* is_deleted, called with a location at or above current_index(), end the
\* process at the check: none returns a value and no store state changes.
C21_OutOfRangeFatal ==
    Ready =>
        \A loc \in Named :
            loc >= current_index(Store) =>
                /\ get_vector(Store, loc) = Aborts(Store)
                /\ get_label_call(Store, loc) = Aborts(Store)
                /\ is_deleted_call(Store, loc) = Aborts(Store)
                /\ \A vector \in Vectors : set_vector(Store, loc, vector) = Fatal(Store)
                /\ \A other \in Named :
                      /\ move_vector(Store, loc, other) = Fatal(Store)
                      /\ move_vector(Store, other, loc) = Fatal(Store)

\* a slot that exists at or above the high-water mark of a store in use
C21_SlotAboveMark ==
    /\ Ready
    /\ _current_idx > 0
    /\ \E loc \in Named : loc >= _current_idx /\ Stored(Store, loc)

\* C22: copy_vector called with a location at or above current_index() ends
\* the process at a range check, and reads no slot at or above the mark.
C22_CopyOutOfRangeFatal ==
    Ready =>
        \A loc \in Named :
            loc >= current_index(Store) => copy_vector(Store, loc) = Aborts(Store)

\* the stores that the public operations other than initialize leave
AfterAnyCall ==
    { size_call(Store).s, deleted_size_call(Store).s, current_index_call(Store).s,
      capacity_call(Store).s, available_call(Store).s, get_batch_size_call(Store).s,
      enable_vacant(Store), disable_vacant(Store), shrink(Store) }
    \cup { exists_label_call(Store, label).s : label \in Labels }
    \cup { get_vacant(Store, label).s : label \in Labels }
    \cup { prefer_add_vector(Store, label).s : label \in Labels }
    \cup { remove_vector(Store, label).s : label \in Labels }
    \cup { add_vector(Store, label, query).s : label \in Labels, query \in Bytes }
    \cup { set_vector(Store, loc, vector) : loc \in Named, vector \in Vectors }
    \cup { get_vector(Store, loc).s : loc \in Named }
    \cup { copy_vector(Store, loc).s : loc \in Named }
    \cup { move_vector(Store, from, to) : from \in Named, to \in Named }
    \cup { get_label_call(Store, loc).s : loc \in Named }
    \cup { is_deleted_call(Store, loc).s : loc \in Named }
    \cup { resize(Store, n) : n \in Named }
    \cup { reserve(Store, n) : n \in Named }
    \cup { pop_back(Store, n) : n \in Named }
    \cup { reset_max_elements(Store, max_size) : max_size \in 1..MaxElements }

\* C23: before initialize, every public operation other than initialize ends
\* the process: none returns a value or changes the store.
C23_UninitializedFatal ==
    (Running /\ ~_is_available) => AfterAnyCall = {Fatal(Store)}

\* C24: get_vacant(label) fails with UNAVAILABLE when vacancy reuse is off,
\* otherwise with RESOURCE_EXHAUSTED when no location is tombstoned, otherwise
\* with ALREADY_EXISTS when label is live; on an error the tombstone set,
\* deleted_size(), both maps and the high-water mark are as before.
C24_GetVacantErrors ==
    Ready =>
        \A label \in Labels :
            LET c == get_vacant(Store, label)
                on == _option.enable_replace_vacant
            IN /\ ~on => c.r = Err("UNAVAILABLE")
               /\ (on /\ _deleted_map = {}) => c.r = Err("RESOURCE_EXHAUSTED")
               /\ (on /\ _deleted_map # {} /\ label \in live) => c.r = Err("ALREADY_EXISTS")
               /\ ~IsOk(c.r) =>
                     /\ c.s.deleted_map = _deleted_map
                     /\ deleted_size(c.s) = deleted_size(Store)
                     /\ c.s.label_map = _label_map
                     /\ c.s.lid_to_label = _lid_to_label
                     /\ current_index(c.s) = current_index(Store)

\* reuse on, a tombstone to take and a live label to ask for
C24_LiveNextToTombstone ==
    Ready /\ _option.enable_replace_vacant /\ _deleted_map # {} /\ live # {}

\* C25: a successful remove_vector(label) returning L sets the reverse-map
\* entry of L to the sentinel, adds L to the tombstone set and adds one to
\* deleted_size(); the high-water mark, capacity(), the bytes of slot L (which
\* get_vector(L) still returns) and the labels and bytes of all other
\* locations are as before.
C25_RemoveFrame ==
    Ready =>
        \A label \in Labels :
            LET c == remove_vector(Store, label)
                L == c.r.value
            IN IsOk(c.r) =>
                /\ c.s.lid_to_label = [_lid_to_label EXCEPT ![L] = kUnknownLabel]
                /\ c.s.deleted_map = _deleted_map \cup {L}
                /\ deleted_size(c.s) = deleted_size(Store) + 1
                /\ current_index(c.s) = current_index(Store)
                /\ capacity(c.s) = capacity(Store)
                /\ c.s.data = _data
                /\ Stored(Store, L)
                /\ get_vector(c.s, L) = Returns(c.s, get_vector_internal(Store, L))

\* C26: reserve(n) ends, and then the allocated slot count is at least
\* min(n, max_elements); it appends whole empty batches and removes none,
\* leaves current_index(), the maps and the tombstone set as they were, and a
\* second reserve(n) changes nothing.
C26_Reserve ==
    Ready =>
        \A n \in Named :
            LET a == reserve(Store, n)
                before == Len(_data)
            IN /\ a.fault = "none"
               /\ Len(a.data) * get_batch_size(a) >= Min({n, _option.max_elements})
               /\ Len(a.data) >= before
               /\ SubSeq(a.data, 1, before) = _data
               /\ \A i \in (before + 1)..Len(a.data) : a.data[i] = NewBatch(get_batch_size(a))
               /\ [a EXCEPT !.data = _data] = Store
               /\ reserve(a, n) = a

\* a store that reserve(n) extends by more than one batch
C26_RoomToReserve ==
    Ready /\ \E n \in Named : Len(reserve(Store, n).data) > Len(_data) + 1

\* C27: shrink() removes trailing batches whose fill cursor is zero and stops
\* at the first non-empty batch from the end; current_index(), size(),
\* deleted_size(), both maps, the tombstone set and the bytes of every
\* location below current_index() are as before; a later add_vector returns
\* what it would have returned, and a later resize up to max_elements
\* succeeds, the chain growing again.
C27_Shrink ==
    Ready =>
        LET a == shrink(Store)
            kept == Len(a.data)
        IN /\ a.fault = "none"
           /\ kept <= Len(_data)
           /\ a.data = SubSeq(_data, 1, kept)
           /\ \A i \in (kept + 1)..Len(_data) : BatchIsEmpty(_data[i])
           /\ kept > 0 => ~BatchIsEmpty(_data[kept])
           /\ [a EXCEPT !.data = _data] = Store
           /\ size(a) = size(Store)
           /\ \A loc \in 0..(current_index(Store) - 1) :
                 Stored(Store, loc) =>
                     /\ Stored(a, loc)
                     /\ get_vector_internal(a, loc) = get_vector_internal(Store, loc)
           /\ \A label \in Labels, query \in Bytes :
                 add_vector(a, label, query).r = add_vector(Store, label, query).r
           /\ \A n \in current_index(Store).._option.max_elements :
                 /\ resize(a, n).fault = "none"
                 /\ current_index(resize(a, n)) = n

\* a store in use whose last batch is empty: shrink() has a batch to drop
C27_EmptyTrailingBatch ==
    /\ Ready
    /\ _current_idx > 0
    /\ Len(_data) > 1
    /\ BatchIsEmpty(_data[Len(_data)])

\* add_vector of the labels of fresh, one after the other, appends each at
\* the high-water mark until the mark is max_elements
RECURSIVE AppendsUpToMax(_, _)
AppendsUpToMax(s, fresh) ==
    IF fresh = {} \/ s.current_idx >= s.option.max_elements THEN TRUE
    ELSE LET label == Min(fresh) IN
         \A query \in Bytes :
             LET c == add_vector(s, label, query) IN
             /\ c.r = Ok(s.current_idx)
             /\ AppendsUpToMax(c.s, fresh \ {label})

\* C28: reset_max_elements(m) ends the process, the limit as it was, unless
\* m is greater than max_elements; otherwise max_elements is m, the reverse
\* map has m entries, the new ones holding the sentinel and the old ones as
\* before, the high-water mark and the label map are as before, and
\* add_vector then appends up to location m - 1 (no tombstone being
\* reusable). No step lowers max_elements.
C28_ResetMaxElements ==
    [][ /\ Ready =>
              \A m \in 1..MaxElements :
                  LET a == reset_max_elements(Store, m) IN
                  /\ m <= _option.max_elements => a = Fatal(Store)
                  /\ m > _option.max_elements =>
                        /\ a.fault = "none"
                        /\ a.option.max_elements = m
                        /\ DOMAIN a.lid_to_label = 0..(m - 1)
                        /\ \A loc \in DOMAIN a.lid_to_label :
                              a.lid_to_label[loc] =
                                  IF loc \in Locations THEN _lid_to_label[loc]
                                  ELSE kUnknownLabel
                        /\ current_index(a) = current_index(Store)
                        /\ a.label_map = _label_map
                        /\ (~a.option.enable_replace_vacant \/ a.deleted_map = {}) =>
                              AppendsUpToMax(a, Labels \ DOMAIN a.label_map)
        /\ (Ready /\ Ready') => _option.max_elements' >= _option.max_elements ]_vars

\* a store in use that reset_max_elements can extend, with a label to add
C28_RoomToRaise ==
    /\ Ready
    /\ _current_idx > 0
    /\ _option.max_elements < MaxElements
    /\ Labels \ DOMAIN _label_map # {}

\* C29: move_vector(from, to) with from and to below current_index() makes
\* the bytes of slot to those of slot from and changes nothing else: the
\* bytes of from and of every other slot, the maps, the tombstone set,
\* deleted_size() and the high-water mark are as before.
C29_MoveVector ==
    Ready =>
        \A from \in Named, to \in Named :
            (from < current_index(Store) /\ to < current_index(Store)) =>
                LET a == move_vector(Store, from, to) IN
                /\ a.fault = "none"
                /\ get_vector(a, to) = Returns(a, get_vector_internal(Store, from))
                /\ \A loc \in Named \ {to} :
                      Stored(Store, loc) =>
                          /\ Stored(a, loc)
                          /\ get_vector_internal(a, loc) = get_vector_internal(Store, loc)
                /\ Len(a.data) = Len(_data)
                /\ \A i \in 1..Len(_data) : a.data[i].size = _data[i].size
                /\ [a EXCEPT !.data = _data] = Store

\* two locations below the high-water mark whose bytes differ
C29_DifferentBytes ==
    /\ Ready
    /\ \E from \in Named, to \in Named :
          /\ from < _current_idx
          /\ to < _current_idx
          /\ get_vector_internal(Store, from) # get_vector_internal(Store, to)

\* the positions at which a thread is inside a critical section
InCriticalSection == {"gv_body", "pa_body", "rm_body"}

\* C30: a step that writes the high-water mark, the reverse map or the
\* tombstone set is taken by the thread that holds the metadata lock
\* exclusively, resize and pop_back included, and get_label reads the reverse
\* map holding the lock at least shared: no resize runs while another thread
\* is inside an add_vector or remove_vector critical section.
C30_MetaLockDiscipline ==
    [][ /\ <<_current_idx, _lid_to_label, _deleted_map>>' #
                <<_current_idx, _lid_to_label, _deleted_map>> =>
              \E t \in Threads : /\ _meta_lock.excl = t
                                 /\ pc[t] \in InCriticalSection
                                 /\ pc'[t] # pc[t]
        /\ \A t \in Threads :
              /\ (ResizeByThread(t) \/ PopBackByThread(t)) => _meta_lock.excl = t
              /\ GetLabelByThread(t) =>
                    (_meta_lock.excl = t \/ t \in _meta_lock.shared) ]_vars

\* the label of thread t's add_vector is bound to the location the call got
BoundTo(t) ==
    /\ exists_label(Store, frame[t].label)
    /\ _label_map[frame[t].label] = frame[t].r.value
    /\ get_label(Store, frame[t].r.value) = frame[t].label

\* C31: add_vector copies the payload after both locks have been released:
\* a thread that is about to call set_vector holds neither lock, its label
\* answers exists_label, and as long as no label has been removed the label
\* map and the reverse map agree on the new binding and on every other one.
C31_PayloadAfterUnlock ==
    \A t \in Threads :
        pc[t] = "set_vector" =>
            /\ _meta_lock.excl # t /\ t \notin _meta_lock.shared
            /\ _label_map_lock.excl # t /\ t \notin _label_map_lock.shared
            /\ IsOk(frame[t].r)
            /\ exists_label(Store, frame[t].label)
            /\ DOMAIN _label_map = live =>
                  /\ BoundTo(t)
                  /\ ~is_deleted(Store, frame[t].r.value)
                  /\ \A label \in DOMAIN _label_map :
                        get_label(Store, _label_map[label]) = label

\* both locks are free, the label is bound to a location that is not deleted
\* and whose bytes are not yet the ones being added, and another thread is
\* free to observe it
C31_BoundBeforeWritten ==
    \E t \in Threads, u \in Threads :
        /\ t # u
        /\ pc[t] = "set_vector"
        /\ pc[u] = "idle"
        /\ _meta_lock = Unlocked /\ _label_map_lock = Unlocked
        /\ BoundTo(t)
        /\ ~is_deleted(Store, frame[t].r.value)
        /\ get_vector_internal(Store, frame[t].r.value) # frame[t].query
        /\ \A label \in DOMAIN _label_map :
              get_label(Store, _label_map[label]) = label

\* the high-water mark of s, a store a call returned, is not below the
\* current one
NotLowered(s) == s.fault = "none" => current_index(s) >= current_index(Store)

\* the high-water mark is left alone or raised by every call except resize
\* and pop_back
OthersKeepMark ==
    /\ \A label \in Labels :
          /\ NotLowered(add_vector(Store, label, MaxByte).s)
          /\ NotLowered(remove_vector(Store, label).s)
          /\ NotLowered(get_vacant(Store, label).s)
    /\ \A n \in 0..(MaxElements + 2) :
          /\ NotLowered(reserve(Store, n))
          /\ NotLowered(reset_max_elements(Store, n))
    /\ NotLowered(shrink(Store))
    /\ \A i \in Named, vector \in Vectors : NotLowered(set_vector(Store, i, vector))
    /\ \A from \in Named, to \in Named : NotLowered(move_vector(Store, from, to))

\* C32: the high-water mark decreases only in resize(n) with n below it and in
\* pop_back(k) with 0 < k < current_index(), which lowers it by k; add_vector,
\* remove_vector, get_vacant, reserve, shrink, reset_max_elements, set_vector
\* and move_vector leave it unchanged or increase it.
C32_MarkLoweredByResizeAndPopBack ==
    Ready =>
        /\ OthersKeepMark
        /\ \A n \in 0..MaxElements :
              LET s == resize(Store, n) IN
              s.fault = "none" => current_index(s) = n
        /\ \A k \in 0..MaxElements :
              LET s == pop_back(Store, k) IN
              s.fault = "none" =>
                  /\ k < current_index(Store)
                  /\ current_index(s) = current_index(Store) - k

\* a store on which pop_back(k), k > 0, returns
C32_PopBackLowers ==
    /\ Ready
    /\ \E k \in 1..MaxElements :
          LET s == pop_back(Store, k) IN
          /\ s.fault = "none"
          /\ current_index(s) < current_index(Store)

\* C32 as stated: pop_back too leaves the high-water mark unchanged or
\* increases it
C32_OnlyResizeLowers ==
    Ready =>
        /\ OthersKeepMark
        /\ \A k \in 0..MaxElements : NotLowered(pop_back(Store, k))

\* the calls that hit TURBO_ASSERT(false, "not implemented") for some span
Unimplemented(metric) ==
    \E a \in Spans, out \in Spans, is_aligned \in BOOLEAN :
        \/ norm(metric, a, is_aligned).status = "NOT_IMPLEMENTED"
        \/ normalize(metric, a, is_aligned).status = "NOT_IMPLEMENTED"
        \/ normalize_out(metric, a, out, is_aligned).status = "NOT_IMPLEMENTED"

\* C33: for every metric has_normalize() is true exactly when norm() and both
\* normalize() overloads are implemented, so a call of norm or normalize on a
\* metric whose has_normalize() is true never meets the "not implemented"
\* assertion; and need_normalize() implies has_normalize().
C33_HasNormalizeMeansImplemented ==
    \A k \in DOMAIN history :
        LET metric == history[k].metric IN
        /\ has_normalize(metric) <=> ~Unimplemented(metric)
        /\ need_normalize(metric) => has_normalize(metric)
        /\ (history[k].op \in {"norm", "normalize", "normalize_out"}
               /\ has_normalize(metric))
              => history[k].r.status # "NOT_IMPLEMENTED"

\* C34: an add_vector that returns an error returns RESOURCE_EXHAUSTED or
\* ALREADY_EXISTS, never the UNAVAILABLE of a get_vacant that reuse is
\* disabled for and never NOT_FOUND, and it leaves the high-water mark, both
\* maps, the tombstone set, deleted_size(), the fill cursors and the slots as
\* they were.
C34_FailedAddLeavesStore ==
    Ready =>
        \A label \in Labels, query \in Bytes :
            LET c == add_vector(Store, label, query) IN
            (c.s.fault = "none" /\ ~IsOk(c.r)) =>
                /\ c.r.status \in {"RESOURCE_EXHAUSTED", "ALREADY_EXISTS"}
                /\ c.s = Store

\* reuse is disabled, so get_vacant answers UNAVAILABLE, and the add_vector
\* of a label fails
C34_FailsAfterUnavailable ==
    /\ Ready
    /\ ~_option.enable_replace_vacant
    /\ \E label \in Labels :
          /\ get_vacant(Store, label).r.status = "UNAVAILABLE"
          /\ ~IsOk(add_vector(Store, label, MaxByte).r)
          /\ add_vector(Store, label, MaxByte).s.fault = "none"

\* C35: remove_vector(a) never tombstones a location that is bound to a
\* different live label: its location afterwards still carries the label it
\* carried, is not deleted, and that label still exists.
C35_RemoveSparesOtherLabels ==
    Ready =>
        \A a \in Labels, loc \in Locations :
            LET b == get_label(Store, loc)
                c == remove_vector(Store, a) IN
            (loc < _current_idx /\ b # kUnknownLabel /\ b # a /\ b \in live
                 /\ c.s.fault = "none") =>
                /\ get_label(c.s, loc) = b
                /\ ~is_deleted(c.s, loc)
                /\ exists_label(c.s, b)

\* threads t and u are in, or have last returned from, add_vector of one label
SameLabelAdds(t, u) ==
    /\ t # u
    /\ frame[t].op = "add_vector" /\ frame[u].op = "add_vector"
    /\ frame[t].label = frame[u].label

\* the allocation step of thread t's add_vector is behind it
Allocated(t) == pc[t] \in {"set_vector", "idle"}

\* of two add_vector calls of one label at most one obtains a location, and
\* the label map holds the location of that one
OneWinner(t, u) ==
    /\ ~(Allocated(t) /\ IsOk(frame[t].r) /\ Allocated(u) /\ IsOk(frame[u].r))
    /\ (Allocated(t) /\ IsOk(frame[t].r)) =>
          /\ exists_label(Store, frame[t].label)
          /\ _label_map[frame[t].label] = frame[t].r.value

\* t waits for the metadata lock that u holds while u waits for the
\* label-map lock that t holds
WaitForEachOther(t, u) ==
    /\ _label_map_lock.excl = t /\ pc[t] \in AsksMeta
    /\ _meta_lock.excl = u /\ pc[u] \in AsksLabelMap

\* C36: of two threads that call add_vector with the same label at once at
\* most one succeeds and the other returns an error (so neither waits for the
\* other forever), and the label is bound to the one location allocated.
C36_SameLabelOneSucceeds ==
    \A t \in Threads, u \in Threads :
        SameLabelAdds(t, u) =>
            /\ OneWinner(t, u)
            /\ ~WaitForEachOther(t, u)

\* the part of C36 that holds: at most one of the two calls obtains a location
C36_AtMostOneSucceeds ==
    \A t \in Threads, u \in Threads : SameLabelAdds(t, u) => OneWinner(t, u)

\* C37: add_vector calls of distinct labels that are in progress at once
\* obtain distinct locations, and no location is bound to two live labels.
C37_DistinctLocations ==
    /\ \A t \in Threads, u \in Threads :
          (t # u /\ pc[t] = "set_vector" /\ pc[u] = "set_vector"
               /\ frame[t].label # frame[u].label)
              => frame[t].r.value # frame[u].r.value
    /\ \A a \in live, b \in live :
          (a # b /\ exists_label(Store, a) /\ exists_label(Store, b))
              => _label_map[a] # _label_map[b]

\* C38: a shrinking resize(n) or pop_back(k) indexes only batches of the
\* chain: the batch index current_index() / batch_size it starts at is below the
\* number of batches, on a full store and after shrink() too, and its loop
\* ends before the index passes below zero.
C38_ShrinkingStaysInChain ==
    Ready =>
        \A n \in 0..MaxElements :
            n < current_index(Store) =>
                /\ InData(Store, current_index(Store) \div _option.batch_size)
                /\ resize(Store, n).fault = "none"
                /\ n > 0 => pop_back(Store, current_index(Store) - n).fault = "none"

\* C39: deleted_size() is the cardinality of the tombstone set and is at most
\* current_index(), so size() is current_index() - deleted_size() without
\* wrapping around, after repeated remove_vector calls on one label and after
\* a shrinking resize too.
C39_DeletedSizeIsTombstones ==
    Ready =>
        /\ deleted_size(Store) = Cardinality(_deleted_map)
        /\ deleted_size(Store) <= current_index(Store)
        /\ size(Store) = current_index(Store) - deleted_size(Store)

\* C40: on an initialized store add_vector never ends in a failed check: the
\* location it obtains from get_vacant or prefer_add_vector is below
\* current_index() when set_vector tests it, also when tombstones at or above
\* the high-water mark are left from a shrinking resize.
C40_AddNeverFatal ==
    Ready =>
        \A label \in Labels, query \in Bytes :
            LET v == get_vacant(Store, label)
                p == IF IsOk(v.r) THEN v ELSE prefer_add_vector(v.s, label)
                c == add_vector(Store, label, query) IN
            /\ IsOk(p.r) => p.r.value < current_index(p.s)
            /\ c.s.fault = "none"

\* C40, the threads: the location a thread's add_vector obtained is below
\* current_index() when the thread calls set_vector, also when another
\* thread's resize ran in between.
C40_PendingWriteBelowMark ==
    \A t \in Threads :
        (pc[t] = "set_vector" /\ Running) => frame[t].r.value < _current_idx

====
